---- MODULE Spec2Model ----
(***************************************************************************)
(* Model of the API-Football ETL: the Delta Lake store adapter and the     *)
(* column transforms of src/etl_utils.py, and the Prefect flow of          *)
(* src/scripts/etl_fixtures.py (extract, flatten, Bronze, Silver, Gold).   *)
(*                                                                         *)
(* A pandas DataFrame is a record [cols, rows]: cols is the set of column  *)
(* names, rows a sequence of functions from cols to cells.  A cell is a    *)
(* record [t, na, v]: its dtype, whether it is missing (NaN / pd.NA /      *)
(* None) and its value.  A Delta table is NoTable or the frame stored at   *)
(* its path, its rows a bag: a table keeps no row order.  An exception is  *)
(* the value of an "err" field.                                            *)
(***************************************************************************)
EXTENDS Integers, Sequences, FiniteSets, Bags, TLC

\* ------------------------------------------------------------- bounds
\* Last UTC day of the clock (days are 1..MaxDay).
MaxDay == 2
\* Most records one API response carries.
MaxBatch == 2
\* Most endpoints in the list given to one flow run.
MaxEndpoints == 2
\* Most flow runs of one behaviour.
MaxRuns == 2
\* Most rows a table holds after a direct call of the adapter.
MaxRows == 4

\* ---------------------------------------------------- program constants
\* @task(retries=3) of extract_data.
RETRIES == 3
DATALAKE_ROOT == "data/etl_datalake"
Endpoints == {"fixtures", "odds"}
Layers == {"bronze", "silver", "gold"}

\* f"{DATALAKE_ROOT}/{layer}/api_football/{endpoint}"
LakePath(layer, endpoint) == <<DATALAKE_ROOT, layer, "api_football", endpoint>>
BRONZE_FIXTURES == LakePath("bronze", "fixtures")
SILVER_FIXTURES == LakePath("silver", "fixtures")
GOLD_FIXTURES == LakePath("gold", "fixtures")
EXPORTS_DIR == <<DATALAKE_ROOT, "exports">>
Paths == {LakePath(l, e) : l \in Layers, e \in Endpoints}

\* The merge predicate "target.fixture_id = source.fixture_id" and the
\* partition column: the predicate is modelled by the column it equates.
PREDICATE == "fixture_id"
PARTITION_COLS == {"event_date"}

\* ------------------------------------------------------------- cells
Cell(t, v) == [t |-> t, na |-> FALSE, v |-> v]
\* A missing value of dtype t; zero stands in the value field.
Missing(t, zero) == [t |-> t, na |-> TRUE, v |-> zero]
\* The value of a path that holds no Delta table.
NoTable == [cols |-> {"<no table>"}, rows |-> EmptyBag, part |-> {}]
\* The value of a frame variable that holds nothing.
NoFrame == [cols |-> {"<no table>"}, rows |-> <<>>]

\* df[col] = f(df[col]) / df[col] = f(row): the column set to g(row) in every row.
SetCol(df, col, g(_)) ==
  [cols |-> df.cols \cup {col},
   rows |-> [i \in 1..Len(df.rows) |->
              [c \in df.cols \cup {col} |->
                 IF c = col THEN g(df.rows[i]) ELSE df.rows[i][c]]]]
\* df.drop(columns=drop) / df[[keep]] for present columns.
KeepCols(df, keep) ==
  [cols |-> df.cols \cap keep,
   rows |-> [i \in 1..Len(df.rows) |-> [c \in df.cols \cap keep |-> df.rows[i][c]]]]
\* df.astype({col: t}): the dtype changes, the value and missingness stay.
AsType(df, col, t) == SetCol(df, col, LAMBDA r : [r[col] EXCEPT !.t = t])
\* df.rename(columns=ren): ren maps every column name to its new name.
Rename(df, ren(_)) ==
  [cols |-> {ren(c) : c \in df.cols},
   rows |-> [i \in 1..Len(df.rows) |->
              [n \in {ren(c) : c \in df.cols} |->
                 df.rows[i][CHOOSE c \in df.cols : ren(c) = n]]]]

\* ------------------------------------------------------ dates and times
SECONDS_PER_DAY == 86400
SECONDS_PER_MINUTE == 60
\* pd.to_datetime(x): a timestamp <<day, second of the day>>; a date or a
\* date string parses to midnight of its day.
ToDatetime(c) == [c EXCEPT !.t = "datetime"]
\* pd.to_datetime(x, unit="s"): UNIX epoch seconds to <<day, second>>.
FromEpoch(c) ==
  [t |-> "datetime", na |-> c.na,
   v |-> <<c.v \div SECONDS_PER_DAY, c.v % SECONDS_PER_DAY>>]
\* .dt.floor("min")
FloorMinute(c) == [c EXCEPT !.v = <<c.v[1], c.v[2] - (c.v[2] % SECONDS_PER_MINUTE)>>]
\* .dt.date: the calendar day, the time of day dropped.
DtDate(c) == [t |-> "date", na |-> c.na, v |-> <<c.v[1], 0>>]
\* .strftime("%Y-%m-%d"): the day as a string, the time of day dropped.
Strftime(c) == [t |-> "str", na |-> c.na, v |-> <<c.v[1], 0>>]

\* ------------------------------------------------- etl_utils transforms
rename_fixture_id(df) ==
  IF "fixture.id" \in df.cols
  THEN Rename(df, LAMBDA c : IF c = "fixture.id" THEN "fixture_id" ELSE c)
  ELSE df

RECURSIVE AsTypeAll(_, _, _)
\* df.astype(mapping) / the loop over cols_to_float, for the present columns.
AsTypeAll(df, cols, t) ==
  IF cols \cap df.cols = {} THEN df
  ELSE LET c == CHOOSE x \in cols \cap df.cols : TRUE
       IN AsTypeAll(AsType(df, c, t), cols \ {c}, t)

cols_to_float ==
  {"score.extratime.home", "score.extratime.away",
   "score.penalty.home", "score.penalty.away"}
normalize_score_cols_to_float(df) == AsTypeAll(df, cols_to_float, "float")

add_event_date_from_fixture_date(df) ==
  IF "fixture.date" \in df.cols
  THEN LET d1 == SetCol(df, "fixture.date", LAMBDA r : ToDatetime(r["fixture.date"]))
       IN SetCol(d1, "event_date", LAMBDA r : DtDate(r["fixture.date"]))
  ELSE IF "fixture_date" \in df.cols
  THEN LET d1 == SetCol(df, "fixture_date", LAMBDA r : ToDatetime(r["fixture_date"]))
       IN SetCol(d1, "event_date", LAMBDA r : DtDate(r["fixture_date"]))
  ELSE df

\* c.lower().replace(".", "_") on the column names of the API's records.
StdName(c) ==
  CASE c = "fixture.id" -> "fixture_id"
    [] c = "fixture.date" -> "fixture_date"
    [] c = "fixture.referee" -> "fixture_referee"
    [] c = "fixture.periods.first" -> "fixture_periods_first"
    [] c = "fixture.periods.second" -> "fixture_periods_second"
    [] c = "league.id" -> "league_id"
    [] c = "league.name" -> "league_name"
    [] c = "teams.home.name" -> "teams_home_name"
    [] c = "teams.away.name" -> "teams_away_name"
    [] c = "teams.home.winner" -> "teams_home_winner"
    [] c = "teams.away.winner" -> "teams_away_winner"
    [] c = "goals.home" -> "goals_home"
    [] c = "goals.away" -> "goals_away"
    [] c = "score.penalty.home" -> "score_penalty_home"
    [] OTHER -> c
standardize_column_names(df) == Rename(df, StdName)

format_datetime_columns(df) ==
  LET d1 == IF "fixture_date" \in df.cols
            THEN SetCol(df, "fixture_date",
                        LAMBDA r : FloorMinute(ToDatetime(r["fixture_date"])))
            ELSE df
      d2 == IF "fixture_periods_first" \in d1.cols
            THEN SetCol(d1, "fixture_periods_first",
                        LAMBDA r : FloorMinute(FromEpoch(r["fixture_periods_first"])))
            ELSE d1
  IN IF "fixture_periods_second" \in d2.cols
     THEN SetCol(d2, "fixture_periods_second",
                 LAMBDA r : FloorMinute(FromEpoch(r["fixture_periods_second"])))
     ELSE d2

cols_drop ==
  {"fixture_referee", "fixture_timezone", "fixture_timestamp",
   "fixture_periods_second", "fixture_status_long", "fixture_status_extra",
   "league_logo", "league_flag", "teams_home_logo", "teams_away_logo"}
drop_irrelevant_cols(df) ==
  IF cols_drop \cap df.cols # {} THEN KeepCols(df, df.cols \ cols_drop) ELSE df

\* Mutant: a tie counts as a home win.
WinnerTieHome(row) ==
  LET gh == row["goals_home"]
      ga == row["goals_away"]
  IN IF ~gh.na /\ ~ga.na
     THEN IF gh.v >= ga.v THEN Cell("object", "Home") ELSE Cell("object", "Away")
     ELSE Missing("object", "")
\* _winner(row) of add_match_winner.
Winner(row) ==
  LET gh == row["goals_home"]
      ga == row["goals_away"]
  IN IF ~gh.na /\ ~ga.na
     THEN IF gh.v > ga.v THEN Cell("object", "Home")
          ELSE IF gh.v < ga.v THEN Cell("object", "Away")
          ELSE Cell("object", "Draw")
     ELSE Missing("object", "")
winner_cols == {"teams_home_winner", "teams_away_winner"}
add_match_winner(df) ==
  LET d1 == IF {"goals_home", "goals_away"} \subseteq df.cols
            THEN SetCol(df, "match_winner", Winner)
            ELSE df
  IN IF winner_cols \cap d1.cols # {} THEN KeepCols(d1, d1.cols \ winner_cols) ELSE d1

\* goals_home + goals_away: missing when either operand is missing.
TotalGoals(row) ==
  LET gh == row["goals_home"]
      ga == row["goals_away"]
      t == IF gh.t = ga.t THEN gh.t ELSE "float64"
  IN IF gh.na \/ ga.na THEN Missing(t, 0) ELSE Cell(t, gh.v + ga.v)
add_total_goals(df) ==
  IF {"goals_home", "goals_away"} \subseteq df.cols
  THEN SetCol(df, "total_goals", TotalGoals)
  ELSE df

type_mapping_numeric ==
  {"fixture_venue_id", "fixture_status_elapsed", "goals_home", "goals_away",
   "score_halftime_home", "score_halftime_away", "score_fulltime_home",
   "score_fulltime_away", "score_extratime_home", "score_extratime_away",
   "score_penalty_home", "score_penalty_away", "total_goals"}
type_mapping_string ==
  {"fixture_venue_name", "fixture_venue_city", "fixture_status_short",
   "league_name", "league_country", "league_round", "teams_home_name",
   "teams_away_name", "match_winner"}
cast_column_types(df) ==
  AsTypeAll(AsTypeAll(df, type_mapping_numeric, "Int64"), type_mapping_string, "string")

categoricals == {"fixture_status_short", "league_round", "match_winner"}
cast_gold_categoricals(df) == AsTypeAll(df, categoricals, "category")

ensure_event_date_utc(df) ==
  IF "event_date" \in df.cols
  THEN SetCol(df, "event_date", LAMBDA r : ToDatetime(r["event_date"]))
  ELSE df

\* --------------------------------------------------- table store adapter
\* A Delta table is [cols, rows, part]: the columns, the bag of rows and the
\* columns it is partitioned by.  T maps every path to its table, or to
\* NoTable.  Every operation returns [tables, err, ...]; err is "none" or the
\* exception that leaves the call.  fault is the storage failure the library
\* call meets: "none", or "DeltaError" for any error other than a missing
\* table.
RECURSIVE SeqToBag(_)
SeqToBag(rows) ==
  IF rows = <<>> THEN EmptyBag ELSE SetToBag({Head(rows)}) (+) SeqToBag(Tail(rows))
RECURSIVE BagToSeq(_)
BagToSeq(B) ==
  IF BagToSet(B) = {} THEN <<>>
  ELSE LET x == CHOOSE y \in BagToSet(B) : TRUE
       IN <<x>> \o BagToSeq(B (-) SetToBag({x}))
\* DeltaTable(path).to_pandas()
Frame(table) == [cols |-> table.cols, rows |-> BagToSeq(table.rows)]
Raise(T, e) == [tables |-> T, err |-> e]
Done(T) == [tables |-> T, err |-> "none"]

\* write_deltalake(path, df, mode=mode, partition_by=partition_cols)
write_deltalake(T, path, df, mode, partition_cols, fault) ==
  LET new == [cols |-> df.cols, rows |-> SeqToBag(df.rows), part |-> partition_cols]
      old == T[path]
  IN IF fault # "none" THEN Raise(T, fault)
     ELSE IF ~(partition_cols \subseteq df.cols) THEN Raise(T, "DeltaError")
     ELSE IF old = NoTable THEN Done([T EXCEPT ![path] = new])
     ELSE IF mode = "error" THEN Raise(T, "DeltaError")
     ELSE IF mode = "ignore" THEN Done(T)
     ELSE IF old.cols # df.cols THEN Raise(T, "DeltaError")
     ELSE IF mode = "append"
     THEN Done([T EXCEPT ![path] = [old EXCEPT !.rows = old.rows (+) new.rows]])
     ELSE Done([T EXCEPT ![path] = [old EXCEPT !.rows = new.rows]])

save_data_as_delta(T, df, path, mode, partition_cols, fault) ==
  write_deltalake(T, path, df, mode, partition_cols, fault)

\* Mutant: the predicate matches no pair of rows.
MatchesNever(t, s, key) == FALSE
\* The merge predicate target.<key> = source.<key> on two rows.
Matches(t, s, key) == t[key].v = s[key].v
\* Whether some row of the bag or sequence `rows` matches s.
HasMatch(rows, s, key) == \E t \in BagToSet(rows) : Matches(t, s, key)
Unmatched(source, target, key) ==
  SeqToBag(SelectSeq(source.rows, LAMBDA s : ~HasMatch(target.rows, s, key)))

\* Mutant: every source row is inserted, matched or not.
MergeAppendAll(target, source, key) ==
  [target EXCEPT !.rows = target.rows (+) SeqToBag(source.rows)]
\* Mutant: a matched target row takes the values of the source row.
MergeUpdateMatched(target, source, key) ==
  LET old == BagToSeq(target.rows)
      updated(t) ==
        IF \E i \in 1..Len(source.rows) : Matches(t, source.rows[i], key)
        THEN source.rows[CHOOSE i \in 1..Len(source.rows) : Matches(t, source.rows[i], key)]
        ELSE t
  IN [target EXCEPT
        !.rows = SeqToBag([i \in 1..Len(old) |-> updated(old[i])])
                 (+) Unmatched(source, target, key)]

\* dt.merge(source, predicate).when_not_matched_insert_all().execute():
\* every source row that matches no target row is inserted; the target rows
\* stay as they are.
MergeInsertAll(target, source, key) ==
  [target EXCEPT !.rows = target.rows (+) Unmatched(source, target, key)]

RECURSIVE Flatten(_)
Flatten(ss) == IF ss = <<>> THEN <<>> ELSE Head(ss) \o Flatten(Tail(ss))
\* ....when_matched_update_all().when_not_matched_insert_all().execute(): a
\* target row is replaced by each source row that matches it (the join gives
\* one output row per matching pair) and unmatched source rows are inserted.
MergeUpsertAll(target, source, key) ==
  LET old == BagToSeq(target.rows)
      updated(t) ==
        IF \E i \in 1..Len(source.rows) : Matches(t, source.rows[i], key)
        THEN SelectSeq(source.rows, LAMBDA s : Matches(t, s, key))
        ELSE <<t>>
  IN [target EXCEPT
        !.rows = SeqToBag(Flatten([i \in 1..Len(old) |-> updated(old[i])]))
                 (+) Unmatched(source, target, key)]

\* The merge needs the key on both sides and the source's columns to be the
\* target's.
MergeFails(target, source, key) ==
  key \notin source.cols \/ key \notin target.cols \/ source.cols # target.cols

\* DeltaTable(data_path): a path that holds no table raises TableNotFoundError.
OpenFails(T, data_path) == T[data_path] = NoTable

\* The try block of save_new_data_as_delta.
TryMergeInsert(T, new_data, data_path, predicate, fault) ==
  IF OpenFails(T, data_path) THEN Raise(T, "TableNotFoundError")
  ELSE IF fault # "none" THEN Raise(T, fault)
  ELSE IF MergeFails(T[data_path], new_data, predicate) THEN Raise(T, "DeltaError")
  ELSE Done([T EXCEPT ![data_path] = MergeInsertAll(T[data_path], new_data, predicate)])

\* Mutant: the handler names an exception the library never raises.
CaughtNever(e) == e = "FileNotFoundError"
\* except TableNotFoundError: the one exception the merge paths catch.
Caught(e) == e = "TableNotFoundError"

save_new_data_as_delta(T, new_data, data_path, predicate, partition_cols, fault) ==
  LET tried == TryMergeInsert(T, new_data, data_path, predicate, fault)
  IN IF Caught(tried.err)
     THEN save_data_as_delta(T, new_data, data_path, "overwrite", partition_cols, fault)
     ELSE tried

\* The try block of upsert_data_as_delta.
TryMergeUpsert(T, data, data_path, predicate, fault) ==
  IF OpenFails(T, data_path) THEN Raise(T, "TableNotFoundError")
  ELSE IF fault # "none" THEN Raise(T, fault)
  ELSE IF MergeFails(T[data_path], data, predicate) THEN Raise(T, "DeltaError")
  ELSE Done([T EXCEPT ![data_path] = MergeUpsertAll(T[data_path], data, predicate)])

upsert_data_as_delta(T, data, data_path, predicate, fault) ==
  LET tried == TryMergeUpsert(T, data, data_path, predicate, fault)
  IN IF Caught(tried.err)
     THEN save_data_as_delta(T, data, data_path, "overwrite", {}, fault)
     ELSE tried

\* datetime.utcnow() on UTC day `day`, at second `sec` of the day.
utcnow(day, sec) == Cell("datetime", <<day, sec>>)
\* Mutant: no day is subtracted.
MinusNoDay(c) == c
\* x - timedelta(days=1)
MinusOneDay(c) == [c EXCEPT !.v = <<c.v[1] - 1, c.v[2]>>]

\* The rows of the partition event_date = value.
PartitionRows(table, value) ==
  SelectSeq(BagToSeq(table.rows), LAMBDA r : Strftime(r["event_date"]).v = value)

read_most_recent_partition(T, data_path, now, fault) ==
  LET requested_date == MinusOneDay(now)
      table == T[data_path]
  IN IF table = NoTable \/ fault # "none" \/ "event_date" \notin table.part
     THEN [tables |-> T, err |-> "Exception", df |-> NoFrame]
     ELSE [tables |-> T, err |-> "none",
           df |-> [cols |-> table.cols,
                   rows |-> PartitionRows(table, Strftime(requested_date).v)]]

read_all_from_delta(T, path, fault) ==
  IF T[path] = NoTable THEN [tables |-> T, err |-> "TableNotFoundError", df |-> NoFrame]
  ELSE IF fault # "none" THEN [tables |-> T, err |-> fault, df |-> NoFrame]
  ELSE [tables |-> T, err |-> "none", df |-> Frame(T[path])]

\* ------------------------------------------------------- the API's records
\* The fixture ids, goal counts and second of the day the responses carry.
Ids == {100, 101}
\* A goal count of the JSON: a number, or null.
Goal(n) == [na |-> FALSE, v |-> n]
NullGoal == [na |-> TRUE, v |-> 0]
\* One element of the "response" array of /fixtures.
FixtureRecord(id, day, gh, ga) ==
  [kind |-> "fixtures", id |-> id, date |-> <<day, 45296>>, home |-> gh, away |-> ga]
\* One element of the "response" array of /odds: no teams, no goals.
OddsRecord(id, day) ==
  [kind |-> "odds", id |-> id, date |-> <<day, 45296>>, home |-> NullGoal, away |-> NullGoal]

FixtureCols ==
  {"fixture.id", "fixture.date", "fixture.referee", "fixture.periods.first",
   "fixture.periods.second", "league.id", "league.name", "teams.home.name",
   "teams.away.name", "teams.home.winner", "teams.away.winner",
   "goals.home", "goals.away", "score.penalty.home"}
OddsCols == {"fixture.id", "fixture.date", "league.id", "league.name", "update"}

\* A JSON number column is int64 unless some record holds null there.
NumCell(data, get(_), x) ==
  LET t == IF \E i \in 1..Len(data) : get(data[i]).na THEN "float64" ELSE "int64"
  IN [t |-> t, na |-> x.na, v |-> x.v]
\* The flattened row of one record: dotted paths of its nested keys.
FlatCell(data, rec, c) ==
  CASE c = "fixture.id" -> Cell("int64", rec.id)
    [] c = "fixture.date" -> Cell("str", rec.date)
    [] c = "fixture.referee" -> Cell("object", "referee")
    [] c = "fixture.periods.first" ->
         Cell("int64", rec.date[1] * SECONDS_PER_DAY + rec.date[2])
    [] c = "fixture.periods.second" ->
         Cell("int64", rec.date[1] * SECONDS_PER_DAY + rec.date[2] + 3600)
    [] c = "league.id" -> Cell("int64", 39)
    [] c = "league.name" -> Cell("object", "Premier League")
    [] c = "teams.home.name" -> Cell("object", "home team")
    [] c = "teams.away.name" -> Cell("object", "away team")
    [] c = "teams.home.winner" ->
         IF rec.home.na \/ rec.away.na THEN Missing("object", FALSE)
         ELSE Cell("object", rec.home.v > rec.away.v)
    [] c = "teams.away.winner" ->
         IF rec.home.na \/ rec.away.na THEN Missing("object", FALSE)
         ELSE Cell("object", rec.home.v < rec.away.v)
    [] c = "goals.home" -> NumCell(data, LAMBDA r : r.home, rec.home)
    [] c = "goals.away" -> NumCell(data, LAMBDA r : r.away, rec.away)
    [] c = "score.penalty.home" -> Missing("object", 0)
    [] c = "update" -> Cell("str", rec.date)
\* pd.json_normalize(data): no record, no column.
json_normalize(data) ==
  LET cols == IF data = <<>> THEN {}
              ELSE IF data[1].kind = "odds" THEN OddsCols ELSE FixtureCols
  IN [cols |-> cols,
      rows |-> [i \in 1..Len(data) |-> [c \in cols |-> FlatCell(data, data[i], c)]]]

transform_data(data) == rename_fixture_id(json_normalize(data))

\* The frame load_data merges into Bronze.
BronzeFrame(df) == add_event_date_from_fixture_date(normalize_score_cols_to_float(df))

gold_columns ==
  {"fixture_id", "event_date", "league_id", "league_name", "teams_home_name",
   "teams_away_name", "goals_home", "goals_away", "match_winner"}
\* df[[...]]: KeyError when a listed column is absent.
Project(df, columns) ==
  IF columns \subseteq df.cols
  THEN [err |-> "none", df |-> KeepCols(df, columns)]
  ELSE [err |-> "KeyError", df |-> df]
\* df["event_date"] = pd.to_datetime(df["event_date"]).dt.strftime("%Y-%m-%d"):
\* reading df["event_date"] raises KeyError when the column is absent.
FormatEventDate(df) ==
  IF "event_date" \in df.cols
  THEN [err |-> "none",
        df |-> SetCol(df, "event_date", LAMBDA r : Strftime(ToDatetime(r["event_date"])))]
  ELSE [err |-> "KeyError", df |-> df]
Returns(df) == [err |-> "none", df |-> df]

\* The steps of transform_to_silver (1..8, lines 108-116) and of
\* transform_to_gold_from_silver (9..13, lines 133-143), in order.
StepNames ==
  <<"standardize_column_names", "format_datetime_columns", "drop_irrelevant_cols",
    "add_match_winner", "add_total_goals", "cast_column_types",
    "add_event_date_from_fixture_date", "format_event_date",
    "cast_column_types", "cast_gold_categoricals", "ensure_event_date_utc",
    "project", "format_event_date">>
SilverSteps == 1..8
GoldSteps == 9..13
Step(i, df) ==
  CASE i = 1 -> Returns(standardize_column_names(df))
    [] i = 2 -> Returns(format_datetime_columns(df))
    [] i = 3 -> Returns(drop_irrelevant_cols(df))
    [] i = 4 -> Returns(add_match_winner(df))
    [] i = 5 -> Returns(add_total_goals(df))
    [] i = 6 -> Returns(cast_column_types(df))
    [] i = 7 -> Returns(add_event_date_from_fixture_date(df))
    [] i = 8 -> FormatEventDate(df)
    [] i = 9 -> Returns(cast_column_types(df))
    [] i = 10 -> Returns(cast_gold_categoricals(df))
    [] i = 11 -> Returns(ensure_event_date_utc(df))
    [] i = 12 -> Project(df, gold_columns)
    [] i = 13 -> FormatEventDate(df)

RECURSIVE RunSteps(_, _, _)
\* Steps from..to on df; an exception ends the run.
RunSteps(df, from, to) ==
  IF from > to THEN Returns(df)
  ELSE LET r == Step(from, df)
       IN IF r.err # "none" THEN r ELSE RunSteps(r.df, from + 1, to)

\* The frame transform_to_silver merges into Silver.
SilverFrame(df_bronze_persisted) == RunSteps(df_bronze_persisted, 1, 8)
\* df_to_save of transform_to_gold_from_silver.
GoldFrame(df_silver_all) == RunSteps(df_silver_all, 9, 13)

\* ------------------------------------------------------------- state
VARIABLES
  tables,     \* path -> Delta table, or NoTable
  exports,    \* export file -> the frame written to it, or NoFrame
  day,        \* the UTC day of the clock
  pc,         \* where the flow run is: idle, loop, a task, completed, failed
  todo,       \* the endpoints the loop of the flow has not started yet
  endpoint,   \* the endpoint of the current iteration
  params,     \* the query parameters of the current iteration
  data,       \* the records extract_data returned
  df_bronze,  \* the frame transform_data returned
  attempts,   \* failed attempts of the current extract_data task run
  error,      \* the exception that left the flow run, or "none"
  runs,       \* the flow runs started so far
  call,       \* the last direct call of an adapter or transform function
  step        \* the position of the step-by-step transform run
vars ==
  <<tables, exports, day, pc, todo, endpoint, params, data, df_bronze,
    attempts, error, runs, call, step>>
flowVars == <<pc, todo, endpoint, params, data, df_bronze, attempts, error, runs>>

ExportFiles == {<<EXPORTS_DIR, e, x>> : e \in Endpoints, x \in {"csv", "parquet"}}
\* A direct call: the function, its path and frame arguments, the UTC day it
\* ran on, the fault it met, the table before it, and what it returned
\* (out) or raised (err).
NoCall ==
  [op |-> "none", path |-> <<>>, arg |-> NoFrame, day |-> 0, fault |-> "none",
   before |-> NoTable, out |-> NoFrame, err |-> "none"]
NoParams == [date |-> <<0, 0>>, timezone |-> "none"]
TimesOfDay == {0, 45296}

Init ==
  /\ tables = [p \in Paths |-> NoTable]
  /\ exports = [f \in ExportFiles |-> NoFrame]
  /\ day = 1
  /\ pc = "idle"
  /\ todo = <<>>
  /\ endpoint = "none"
  /\ params = NoParams
  /\ data = <<>>
  /\ df_bronze = NoFrame
  /\ attempts = 0
  /\ error = "none"
  /\ runs = 0
  /\ call = NoCall
  /\ step = 0

\* ------------------------------------------------------------- the flow
\* Sequences over S of length 0..n.
SeqsUpTo(S, n) == UNION {[1..k -> S] : k \in 0..n}
EndpointLists == SeqsUpTo(Endpoints, MaxEndpoints)

\* What the API answers: /fixtures?date=d returns fixtures of day d, /odds
\* (no parameters) the odds of a fixture of the current day.
FlowRecord(id, d) ==
  IF id = 100 THEN FixtureRecord(id, d, Goal(2), Goal(1))
  ELSE FixtureRecord(id, d, Goal(0), Goal(0))
Responses(ep, p, today) ==
  IF ep = "fixtures"
  THEN SeqsUpTo({FlowRecord(id, p.date[1]) : id \in Ids}, MaxBatch)
  ELSE SeqsUpTo({OddsRecord(100, today)}, 1)

FaultAt(failAt, k) == IF failAt = k THEN "DeltaError" ELSE "none"

\* The locals of etl_parametrizable are gone when it returns or raises.
DropLocals ==
  /\ todo' = <<>>
  /\ endpoint' = "none"
  /\ params' = NoParams
  /\ data' = <<>>
  /\ df_bronze' = NoFrame
  /\ attempts' = 0

\* etl_parametrizable(endpoints) is called.
StartFlow(eps) ==
  /\ pc \in {"idle", "completed", "failed"}
  /\ runs < MaxRuns
  /\ runs' = runs + 1
  /\ pc' = "loop"
  /\ todo' = eps
  /\ error' = "none"
  /\ UNCHANGED <<tables, exports, day, endpoint, params, data, df_bronze, attempts,
                 call, step>>

\* for endpoint in endpoints: ... params (lines 165-169); the flow returns
\* when the list is exhausted.
LoopHead(sec) ==
  /\ pc = "loop"
  /\ IF todo = <<>>
     THEN /\ pc' = "completed"
          /\ DropLocals
     ELSE /\ pc' = "extract_data"
          /\ endpoint' = Head(todo)
          /\ todo' = Tail(todo)
          /\ params' = IF Head(todo) = "fixtures"
                       THEN [date |-> Strftime(MinusOneDay(utcnow(day, sec))).v,
                             timezone |-> "UTC"]
                       ELSE NoParams
          /\ UNCHANGED <<data, df_bronze, attempts>>
  /\ UNCHANGED <<tables, exports, day, error, runs, call, step>>

\* Mutant: the exception is swallowed and the loop goes on.
FlowSwallows(e) ==
  /\ pc' = "loop"
  /\ error' = e
  /\ UNCHANGED <<todo, endpoint, params, data, df_bronze, attempts>>
\* A task raised: the exception leaves the flow run and reaches its caller.
FlowFails(e) ==
  /\ pc' = "failed"
  /\ error' = e
  /\ DropLocals

\* extract_data raised (HTTP error, timeout): Prefect runs the task again up
\* to RETRIES times, then the exception leaves the task.
ExtractFails ==
  /\ pc = "extract_data"
  /\ IF attempts < RETRIES
     THEN /\ attempts' = attempts + 1
          /\ UNCHANGED <<pc, error, todo, endpoint, params, data, df_bronze>>
     ELSE FlowFails("HTTPError")
  /\ UNCHANGED <<tables, exports, day, runs, call, step>>

ExtractReturns(response) ==
  /\ pc = "extract_data"
  /\ data' = response
  /\ attempts' = 0
  /\ pc' = "transform_data"
  /\ UNCHANGED <<tables, exports, day, todo, endpoint, params, df_bronze,
                 error, runs, call, step>>

\* df_bronze = transform_data(data); data is not read again.
TransformData ==
  /\ pc = "transform_data"
  /\ df_bronze' = transform_data(data)
  /\ data' = <<>>
  /\ pc' = "load_data"
  /\ UNCHANGED <<tables, exports, day, todo, endpoint, params, attempts,
                 error, runs, call, step>>

\* load_data(df_bronze, endpoint); df_bronze is not read again.
LoadData(failAt) ==
  /\ pc = "load_data"
  /\ LET saved == save_new_data_as_delta(tables, BronzeFrame(df_bronze),
                    LakePath("bronze", endpoint), PREDICATE, PARTITION_COLS,
                    FaultAt(failAt, 1))
     IN /\ tables' = saved.tables
        /\ IF saved.err # "none"
           THEN FlowFails(saved.err)
           ELSE /\ pc' = "to_silver"
                /\ df_bronze' = NoFrame
                /\ UNCHANGED <<error, todo, endpoint, params, data, attempts>>
  /\ UNCHANGED <<exports, day, runs, call, step>>

\* transform_to_silver(endpoint)
ToSilver(failAt, sec) ==
  /\ pc = "to_silver"
  /\ LET read == read_most_recent_partition(tables, BRONZE_FIXTURES,
                                            utcnow(day, sec), FaultAt(failAt, 1))
         silver == SilverFrame(read.df)
         saved == save_new_data_as_delta(tables, silver.df, SILVER_FIXTURES,
                    PREDICATE, PARTITION_COLS, FaultAt(failAt, 2))
         err == IF read.err # "none" THEN read.err
                ELSE IF silver.err # "none" THEN silver.err
                ELSE saved.err
     IN IF err # "none"
        THEN /\ FlowFails(err)
             /\ UNCHANGED tables
        ELSE /\ tables' = saved.tables
             /\ pc' = "to_gold"
             /\ UNCHANGED <<error, todo, endpoint, params, data, df_bronze, attempts>>
  /\ UNCHANGED <<exports, day, runs, call, step>>

\* df.to_csv / df.to_parquet: the file is overwritten.
WriteExport(X, file, df, fault) ==
  IF fault # "none" THEN [exports |-> X, err |-> "OSError"]
  ELSE [exports |-> [X EXCEPT ![file] = df], err |-> "none"]

\* transform_to_gold_from_silver(endpoint)
ToGold(failAt) ==
  /\ pc = "to_gold"
  /\ LET read == read_all_from_delta(tables, SILVER_FIXTURES, FaultAt(failAt, 1))
         gold == GoldFrame(read.df)
         saved == save_new_data_as_delta(tables, gold.df, GOLD_FIXTURES,
                    PREDICATE, PARTITION_COLS, FaultAt(failAt, 2))
         csv == WriteExport(exports, <<EXPORTS_DIR, endpoint, "csv">>, gold.df,
                            IF failAt = 3 THEN "OSError" ELSE "none")
         parquet == WriteExport(csv.exports, <<EXPORTS_DIR, endpoint, "parquet">>,
                                gold.df, IF failAt = 4 THEN "OSError" ELSE "none")
         err == IF read.err # "none" THEN read.err
                ELSE IF gold.err # "none" THEN gold.err
                ELSE IF saved.err # "none" THEN saved.err
                ELSE IF csv.err # "none" THEN csv.err
                ELSE parquet.err
     IN /\ tables' = IF read.err = "none" /\ gold.err = "none" THEN saved.tables ELSE tables
        /\ exports' = IF read.err # "none" \/ gold.err # "none" \/ saved.err # "none"
                         \/ csv.err # "none"
                      THEN exports
                      ELSE parquet.exports
        /\ IF err # "none"
           THEN FlowFails(err)
           ELSE /\ pc' = "loop"
                /\ UNCHANGED <<error, todo, endpoint, params, data, df_bronze, attempts>>
  /\ UNCHANGED <<day, runs, call, step>>

\* Midnight UTC passes.
Tick ==
  /\ day < MaxDay
  /\ day' = day + 1
  /\ UNCHANGED <<tables, exports, flowVars, call, step>>

Next ==
  \/ \E eps \in EndpointLists : StartFlow(eps)
  \/ \E sec \in TimesOfDay : LoopHead(sec)
  \/ ExtractFails
  \/ \E response \in Responses(endpoint, params, day) : ExtractReturns(response)
  \/ TransformData
  \/ \E failAt \in 0..1 : LoadData(failAt)
  \/ \E failAt \in 0..2, sec \in TimesOfDay : ToSilver(failAt, sec)
  \/ \E failAt \in 0..4 : ToGold(failAt)
  \/ Tick

Spec == Init /\ [][Next]_vars

\* ------------------------------------------------ the end-to-end scenario
\* The flow run on ["fixtures"] while the API answers every request with the
\* same two records of day 0, in either order; a day passes only between a
\* completed run and the next.
E2ERecords ==
  {FixtureRecord(100, 0, Goal(2), Goal(1)), FixtureRecord(101, 0, Goal(0), Goal(0))}
E2EResponses == {r \in [1..2 -> E2ERecords] : r[1] # r[2]}
NextE2E ==
  \/ StartFlow(<<"fixtures">>)
  \/ \E sec \in TimesOfDay : LoopHead(sec)
  \/ ExtractFails
  \/ \E response \in E2EResponses : ExtractReturns(response)
  \/ TransformData
  \/ \E failAt \in 0..1 : LoadData(failAt)
  \/ \E failAt \in 0..2, sec \in TimesOfDay : ToSilver(failAt, sec)
  \/ \E failAt \in 0..4 : ToGold(failAt)
  \/ (pc = "completed" /\ Tick)
SpecE2E == Init /\ [][NextE2E]_vars

\* ------------------------------------------------- the recovery scenario
\* The flow run on ["fixtures"], called again only after a run that failed;
\* days may pass between the failed run and the next call.  The API answers
\* with fixtures of the requested date, no fixture twice in an answer.
RecoveryResponses(p, today) ==
  {r \in Responses("fixtures", p, today) :
     \A i, j \in 1..Len(r) : r[i].id = r[j].id => i = j}
NextRecovery ==
  \/ (pc # "completed" /\ StartFlow(<<"fixtures">>))
  \/ \E sec \in TimesOfDay : LoopHead(sec)
  \/ ExtractFails
  \/ \E response \in RecoveryResponses(params, day) : ExtractReturns(response)
  \/ TransformData
  \/ \E failAt \in 0..1 : LoadData(failAt)
  \/ \E failAt \in 0..2, sec \in TimesOfDay : ToSilver(failAt, sec)
  \/ \E failAt \in 0..4 : ToGold(failAt)
  \/ (pc = "failed" /\ Tick)
SpecRecovery == Init /\ [][NextRecovery]_vars

\* ------------------------------------------- direct calls of the adapter
\* The adapter called directly on one table, as a client or a test does.
StorePath == SILVER_FIXTURES
\* Two versions of fixture 100 of day 0, and fixture 101 of day 1.
StoreRecords ==
  {FixtureRecord(100, 0, Goal(2), Goal(1)), FixtureRecord(100, 0, Goal(0), Goal(0)),
   FixtureRecord(101, 1, Goal(0), Goal(0))}
\* The frames given to the adapter: Bronze frames of up to MaxBatch records.
StoreFrames == {BronzeFrame(transform_data(b)) : b \in SeqsUpTo(StoreRecords, MaxBatch)}
Faults == {"none", "DeltaError"}
Modes == {"overwrite", "append", "error", "ignore"}
Fits(T) == T[StorePath] = NoTable \/ BagCardinality(T[StorePath].rows) <= MaxRows

Called(op, df, fault, today, res, out) ==
  /\ Fits(res.tables)
  /\ tables' = res.tables
  /\ call' = [op |-> op, path |-> StorePath, arg |-> df, day |-> today, fault |-> fault,
              before |-> tables[StorePath], out |-> out, err |-> res.err]
  /\ UNCHANGED <<exports, day, flowVars, step>>

CallSave(df, mode) ==
  Called("save", df, "none", 0,
         save_data_as_delta(tables, df, StorePath, mode, PARTITION_COLS, "none"), NoFrame)

CallSaveNew(df, fault) ==
  Called("save_new", df, fault, 0,
         save_new_data_as_delta(tables, df, StorePath, PREDICATE, PARTITION_COLS, fault),
         NoFrame)

\* The same call again, right after one that returned.
CallSaveNewAgain ==
  /\ call.op = "save_new"
  /\ call.err = "none"
  /\ Called("save_new_again", call.arg, "none", 0,
            save_new_data_as_delta(tables, call.arg, StorePath, PREDICATE,
                                   PARTITION_COLS, "none"),
            NoFrame)

CallUpsert(df, fault) ==
  Called("upsert", df, fault, 0,
         upsert_data_as_delta(tables, df, StorePath, PREDICATE, fault), NoFrame)

CallReadMostRecent(today, sec, fault) ==
  LET res == read_most_recent_partition(tables, StorePath, utcnow(today, sec), fault)
  IN Called("read_most_recent_partition", NoFrame, fault, today, res, res.df)

CallReadAll(fault) ==
  LET res == read_all_from_delta(tables, StorePath, fault)
  IN Called("read_all", NoFrame, fault, 0, res, res.df)

NextStore ==
  \/ \E df \in StoreFrames, mode \in Modes : CallSave(df, mode)
  \/ \E df \in StoreFrames, fault \in Faults : CallSaveNew(df, fault)
  \/ CallSaveNewAgain
  \/ \E df \in StoreFrames, fault \in Faults : CallUpsert(df, fault)
  \/ \E today \in 1..MaxDay, sec \in TimesOfDay, fault \in Faults :
       CallReadMostRecent(today, sec, fault)
  \/ \E fault \in Faults : CallReadAll(fault)

SpecStore == Init /\ [][NextStore]_vars

\* ------------------------------------- the transforms run step by step
\* transform_to_silver and transform_to_gold_from_silver run one step at a
\* time on a Bronze frame: fixture 100 with every goal count, null included,
\* and frames that lack some columns.
GoalValues == {NullGoal, Goal(1), Goal(2)}
TransformRecords == {FixtureRecord(100, 0, gh, ga) : gh \in GoalValues, ga \in GoalValues}
DropSets ==
  {{}, {"goals.home"}, {"goals.away"}, {"league.id"}, {"fixture.date", "event_date"},
   {"teams.home.winner", "teams.away.winner", "fixture.referee",
    "fixture.periods.first", "fixture.periods.second", "score.penalty.home"}}
TransformInputs ==
  {KeepCols(BronzeFrame(transform_data(b)),
            BronzeFrame(transform_data(b)).cols \ D) :
     b \in SeqsUpTo(TransformRecords, MaxBatch) \ {<<>>}, D \in DropSets}

InitTransform ==
  /\ tables = [p \in Paths |-> NoTable]
  /\ exports = [f \in ExportFiles |-> NoFrame]
  /\ day = 1
  /\ pc = "idle"
  /\ todo = <<>>
  /\ endpoint = "none"
  /\ params = NoParams
  /\ data = <<>>
  /\ df_bronze = NoFrame
  /\ attempts = 0
  /\ error = "none"
  /\ runs = 0
  /\ call \in {[NoCall EXCEPT !.op = "input", !.out = df] : df \in TransformInputs}
  /\ step = 0

\* The next step on the frame the last one returned.
ApplyStep ==
  LET r == Step(step + 1, call.out)
  IN /\ call.err = "none"
     /\ call' = [NoCall EXCEPT !.op = StepNames[step + 1], !.arg = call.out,
                               !.out = r.df, !.err = r.err]
     /\ step' = step + 1
     /\ UNCHANGED <<tables, exports, day, flowVars>>

SilverStep == step + 1 \in SilverSteps /\ ApplyStep
GoldStep == step + 1 \in GoldSteps /\ ApplyStep
NextTransform == SilverStep \/ GoldStep
SpecTransform == InitTransform /\ [][NextTransform]_vars

\* ----------------------------------------------- claims on the transforms
GoalCols == {"goals_home", "goals_away"}
\* C7: in every row of a frame that has goals_home and goals_away,
\* match_winner is Home, Away or Draw as goals_home is greater than, less
\* than or equal to goals_away and total_goals is their sum; when either goal
\* count is missing, match_winner and total_goals are both missing.  It holds
\* from add_total_goals on, through the casts of Silver and Gold.
C7_WinnerAndTotal ==
  (step \in 5..11 /\ call.err = "none" /\ GoalCols \subseteq call.out.cols) =>
    /\ {"match_winner", "total_goals"} \subseteq call.out.cols
    /\ \A i \in 1..Len(call.out.rows) :
         LET r == call.out.rows[i]
             gh == r["goals_home"]
             ga == r["goals_away"]
             w == r["match_winner"]
             tg == r["total_goals"]
         IN IF gh.na \/ ga.na
            THEN w.na /\ tg.na
            ELSE /\ ~w.na
                 /\ ~tg.na
                 /\ tg.v = gh.v + ga.v
                 /\ (gh.v > ga.v => w.v = "Home")
                 /\ (gh.v < ga.v => w.v = "Away")
                 /\ (gh.v = ga.v => w.v = "Draw")
\* add_total_goals ran on a frame with a 2-1 row and a row that lacks a goal
\* count, and a frame with a draw went through the casts.
C7_Witness ==
  /\ step = 5
  /\ GoalCols \subseteq call.out.cols
  /\ \E i, j \in 1..Len(call.out.rows) :
       /\ call.out.rows[i]["goals_home"].v = 2
       /\ call.out.rows[i]["goals_away"].v = 1
       /\ call.out.rows[i]["match_winner"].v = "Home"
       /\ call.out.rows[i]["total_goals"].v = 3
       /\ call.out.rows[j]["goals_away"].na
       /\ call.out.rows[j]["match_winner"].na

\* The columns step i names.
Refers(i) ==
  CASE i = 1 -> {}
    [] i = 2 -> {"fixture_date", "fixture_periods_first", "fixture_periods_second"}
    [] i = 3 -> cols_drop
    [] i = 4 -> GoalCols \cup winner_cols
    [] i = 5 -> GoalCols
    [] i \in {6, 9} -> type_mapping_numeric \cup type_mapping_string
    [] i = 7 -> {"fixture.date", "fixture_date"}
    [] i \in {8, 11, 13} -> {"event_date"}
    [] i = 10 -> categoricals
    [] i = 12 -> gold_columns
\* C8: every step of the Silver and of the Gold transform, the projection
\* included, run on a frame that lacks a column it names raises nothing, and
\* returns the frame as it was when the frame has none of the columns.
C8_ColumnGuard ==
  (step >= 1 /\ ~(Refers(step) \subseteq call.arg.cols)) =>
    /\ call.err = "none"
    /\ (Refers(step) \cap call.arg.cols = {} => call.out = call.arg)

\* -------------------------------------------------- claims on the adapter
\* How many times row r occurs in the sequence rows.
Count(r, rows) == Cardinality({i \in 1..Len(rows) : rows[i] = r})
SeqRows(rows) == {rows[i] : i \in 1..Len(rows)}
KeysOf(rowset) == {r[PREDICATE].v : r \in rowset}
MergeInsertCalls == {"save_new", "save_new_again"}

\* C1: merge-insert-only is idempotent: the same call made again, with the
\* same batch and predicate, returns and leaves the table with exactly the
\* rows the first call left, whether or not the first call created the table.
C1_Idempotent ==
  call.op = "save_new_again" =>
    /\ call.err = "none"
    /\ tables[call.path] = call.before
\* The repeated call carried a batch that repeats a fixture_id.
C1_Witness ==
  /\ call.op = "save_new_again"
  /\ Len(call.arg.rows) = 2
  /\ call.arg.rows[1][PREDICATE].v = call.arg.rows[2][PREDICATE].v
  /\ call.arg.rows[1] # call.arg.rows[2]
  /\ BagCardinality(tables[call.path].rows) >= 2

\* C4: on an existing table save_new_data_as_delta inserts an input row only
\* when no existing row has its fixture_id, and every row already in the
\* table stays, with all its fields: each row occurs after the call as often
\* as before it, plus its occurrences in the input when its fixture_id is new.
C4_InsertOnly ==
  (call.op \in MergeInsertCalls /\ call.before # NoTable /\ call.err = "none") =>
    LET before == call.before.rows
        after == tables[call.path].rows
        input == call.arg.rows
    IN \A r \in BagToSet(before) \cup BagToSet(after) \cup SeqRows(input) :
         CopiesIn(r, after) =
           CopiesIn(r, before)
           + (IF r[PREDICATE].v \in KeysOf(BagToSet(before)) THEN 0 ELSE Count(r, input))
\* The input carried other field values for a fixture_id of the table, and a
\* fixture_id the table did not hold.
C4_Witness ==
  /\ call.op = "save_new"
  /\ call.before # NoTable
  /\ call.err = "none"
  /\ \E r \in SeqRows(call.arg.rows) :
       /\ r[PREDICATE].v \in KeysOf(BagToSet(call.before.rows))
       /\ r \notin BagToSet(call.before.rows)
  /\ \E r \in SeqRows(call.arg.rows) :
       r[PREDICATE].v \notin KeysOf(BagToSet(call.before.rows))

\* C5: a merge path never lets TableNotFoundError out; on a missing table it
\* saves the batch in overwrite mode, and unless that save meets a storage
\* error of its own the table then exists and holds exactly the rows of the
\* batch; a storage error other than the missing table leaves the call as it
\* is, and the table as it was.
C5_Fallback ==
  call.op \in {"save_new", "upsert"} =>
    /\ call.err # "TableNotFoundError"
    /\ (call.before = NoTable /\ call.fault = "none"
        /\ (call.op = "upsert" \/ PARTITION_COLS \subseteq call.arg.cols)) =>
         /\ call.err = "none"
         /\ tables[call.path] # NoTable
         /\ tables[call.path].cols = call.arg.cols
         /\ tables[call.path].rows = SeqToBag(call.arg.rows)
    /\ call.fault # "none" =>
         /\ call.err = call.fault
         /\ tables[call.path] = call.before
\* A merge path created the table from a batch of two rows.
C5_Witness ==
  /\ call.op \in {"save_new", "upsert"}
  /\ call.before = NoTable
  /\ call.err = "none"
  /\ BagCardinality(tables[call.path].rows) = 2

\* C6: read_most_recent_partition on UTC day D returns exactly the rows of
\* the table whose event_date is D-1, as often as the table holds them, and
\* no other row; when the table cannot be read (no table at the path, a
\* storage error, no event_date partition) it raises.
C6_ReadsYesterday ==
  call.op = "read_most_recent_partition" =>
    IF call.before = NoTable \/ call.fault # "none" \/ "event_date" \notin call.before.part
    THEN call.err # "none"
    ELSE /\ call.err = "none"
         /\ \A r \in BagToSet(call.before.rows) \cup SeqRows(call.out.rows) :
              Count(r, call.out.rows) =
                IF r["event_date"].v[1] = call.day - 1
                THEN CopiesIn(r, call.before.rows)
                ELSE 0
\* The read returned rows and left out a row of another partition.
C6_Witness ==
  /\ call.op = "read_most_recent_partition"
  /\ call.err = "none"
  /\ call.out.rows # <<>>
  /\ \E r \in BagToSet(call.before.rows) : r["event_date"].v[1] # call.day - 1

\* ----------------------------------------------------- claims on the flow
FixtureTables == {BRONZE_FIXTURES, SILVER_FIXTURES, GOLD_FIXTURES}
\* The <<fixture_id, match_winner>> pairs of a frame's rows.
Winners(df) ==
  {<<df.rows[i]["fixture_id"].v, df.rows[i]["match_winner"].v>> : i \in 1..Len(df.rows)}
FixtureExports == {<<EXPORTS_DIR, "fixtures", x>> : x \in {"csv", "parquet"}}

\* C2: every table holds at most one row per fixture_id, in every reachable
\* state.
C2_UniqueFixtureId ==
  \A p \in Paths :
    tables[p] # NoTable =>
      \A r1, r2 \in BagToSet(tables[p].rows) :
        /\ CopiesIn(r1, tables[p].rows) = 1
        /\ (r1[PREDICATE].v = r2[PREDICATE].v => r1 = r2)

\* C3: when extraction returns fixtures 100 (2-1) and 101 (0-0), dated so
\* that Silver reads them, every completed run leaves a Gold export of exactly
\* two rows, 100 with match_winner Home and 101 with Draw, and Bronze, Silver
\* and Gold with exactly the two fixtures; no run, the first or a later one
\* with the same two records, leaves more than two rows anywhere.
C3_EndToEnd ==
  /\ \A p \in FixtureTables : BagCardinality(tables[p].rows) <= 2
  /\ \A f \in FixtureExports : Len(exports[f].rows) <= 2
  /\ pc = "completed" =>
       /\ \A f \in FixtureExports :
            /\ Len(exports[f].rows) = 2
            /\ Winners(exports[f]) = {<<100, "Home">>, <<101, "Draw">>}
       /\ \A p \in FixtureTables :
            /\ BagCardinality(tables[p].rows) = 2
            /\ KeysOf(BagToSet(tables[p].rows)) = {100, 101}
\* The chain ran a second time to its end.
C3_Witness ==
  /\ pc = "completed"
  /\ runs = 2
  /\ day = 2
  /\ Len(exports[<<EXPORTS_DIR, "fixtures", "csv">>].rows) = 2

\* C9: the silver stage of an endpoint reads the Bronze table of that
\* endpoint and writes the Silver table of that endpoint, and the gold stage
\* reads that Silver table and writes the Gold table of that endpoint.
C9_SilverStep ==
  (pc = "to_silver" /\ pc' = "to_gold") =>
    \E sec \in TimesOfDay :
      LET read == read_most_recent_partition(tables, LakePath("bronze", endpoint),
                                             utcnow(day, sec), "none")
          silver == SilverFrame(read.df)
      IN /\ read.err = "none"
         /\ silver.err = "none"
         /\ tables' = save_new_data_as_delta(tables, silver.df,
                        LakePath("silver", endpoint), PREDICATE, PARTITION_COLS,
                        "none").tables
C9_GoldStep ==
  (pc = "to_gold" /\ pc' = "loop") =>
    LET read == read_all_from_delta(tables, LakePath("silver", endpoint), "none")
        gold == GoldFrame(read.df)
    IN /\ read.err = "none"
       /\ gold.err = "none"
       /\ tables' = save_new_data_as_delta(tables, gold.df,
                      LakePath("gold", endpoint), PREDICATE, PARTITION_COLS,
                      "none").tables
C9_OwnEndpointTables == [][C9_SilverStep /\ C9_GoldStep]_vars

\* C10: the stages of an endpoint run in the order extract, flatten, bronze
\* load, silver, gold; the next endpoint starts only from the head of the
\* loop, which is reached only when the gold stage has finished; a failing
\* stage ends the run with its exception, the tables and exports that later
\* stages write are as they were, and nothing runs until the flow is called
\* again.
FlowOrder ==
  {<<"idle", "loop">>, <<"completed", "loop">>, <<"failed", "loop">>,
   <<"loop", "extract_data">>, <<"loop", "completed">>,
   <<"extract_data", "transform_data">>, <<"extract_data", "failed">>,
   <<"transform_data", "load_data">>,
   <<"load_data", "to_silver">>, <<"load_data", "failed">>,
   <<"to_silver", "to_gold">>, <<"to_silver", "failed">>,
   <<"to_gold", "loop">>, <<"to_gold", "failed">>}
\* The layers written by the stages after the stage at pc.
LaterLayers(at) ==
  CASE at \in {"extract_data", "transform_data"} -> {"bronze", "silver", "gold"}
    [] at = "load_data" -> {"silver", "gold"}
    [] at = "to_silver" -> {"gold"}
    [] OTHER -> {}
C10_Step ==
  /\ pc' # pc => <<pc, pc'>> \in FlowOrder
  /\ (endpoint' # endpoint /\ endpoint' # "none") => pc = "loop"
  /\ (pc' = "failed" /\ pc # "failed") =>
       /\ error' # "none"
       /\ \A l \in LaterLayers(pc), e \in Endpoints :
            tables'[LakePath(l, e)] = tables[LakePath(l, e)]
       /\ pc # "to_gold" => exports' = exports
  /\ pc = "failed" => (tables' = tables /\ exports' = exports)
C10_StageOrder == [][C10_Step]_vars
\* With ["fixtures", "odds"] the fixtures chain ran to its end, the odds
\* chain loaded Bronze and then failed.
C10_Witness ==
  /\ runs = 1
  /\ pc = "failed"
  /\ error # "none"
  /\ tables[GOLD_FIXTURES] # NoTable
  /\ tables[LakePath("bronze", "odds")] # NoTable

\* ------------------------------------------------- claims on the recovery
\* The fixture ids of the table at path p.
TableKeys(p) == KeysOf(BagToSet(tables[p].rows))
\* No fixture_id is held by two rows of the table at path p.
NoDuplicateKey(p) ==
  \A r1, r2 \in BagToSet(tables[p].rows) :
    /\ CopiesIn(r1, tables[p].rows) = 1
    /\ (r1[PREDICATE].v = r2[PREDICATE].v => r1 = r2)
InSync ==
  /\ TableKeys(BRONZE_FIXTURES) \subseteq TableKeys(SILVER_FIXTURES)
  /\ TableKeys(SILVER_FIXTURES) \subseteq TableKeys(GOLD_FIXTURES)
  /\ \A p \in FixtureTables : NoDuplicateKey(p)

\* C11: when a flow run that follows a failed run completes, every
\* fixture_id of Bronze is in Silver, every fixture_id of Silver is in Gold,
\* and no layer holds a fixture_id twice.
C11_RecoveryByRerun ==
  (pc = "completed" /\ runs >= 2) => InSync
====
